---------------------------- MODULE Spec2Model ----------------------------
(***************************************************************************)
(* A model of crop_image.py: the sticker-detection pipeline                *)
(* (identify_stickers, is_rubik_square, correct_labels) and the capture    *)
(* loop of the main program.                                               *)
(*                                                                         *)
(* An image is modelled by its height, its width and the boundaries that   *)
(* cv2.findContours reports for its crop (image_contours); a contour is a  *)
(* sequence of integer points <<x, y>>; the cropped image is its shape     *)
(* <<rows, cols>>.  Indices stored in label_key are 0-based, as in Python. *)
(***************************************************************************)
EXTENDS Integers, Sequences, FiniteSets

VARIABLES
    pc,                 \* position in the pipeline
    imgheight, imgwidth,\* np.shape(image)
    image_contours,     \* what cv2.findContours finds in the crop of image
    border_top, border_side, true_center_width, center_width,
    image_cropped,      \* shape <<rows, cols>> of the crop
    contours,           \* result of cv2.findContours
    closed_contours,    \* contours accepted by is_rubik_square
    sticker_contours,   \* the nine largest accepted contours
    label_key,          \* list of <<ptindex, cntindex>>
    error,              \* exception raised, "none" if none
    accepted,           \* result of a direct call of is_rubik_square
    lpc, result, frames, captures, invocations   \* the capture loop

vars == <<pc, imgheight, imgwidth, image_contours, border_top, border_side,
          true_center_width, center_width, image_cropped, contours,
          closed_contours, sticker_contours, label_key, error, accepted,
          lpc, result, frames, captures, invocations>>

planvars == <<border_top, border_side, true_center_width, center_width>>
loopvars == <<lpc, result, frames, captures, invocations>>

----------------------------------------------------------------------------
(* Bounds of the model and constants of the program *)

MaxDim == 17            \* every image size 1..MaxDim x 1..MaxDim is planned
MaxLong == 10           \* longest sequence of contours over a two-contour universe
MaxShort == 2           \* longest sequence of contours over the full universe
MaxTie == 4             \* longest sequence of contours over the universe with ties
MaxFrames == 3          \* frames read by the capture loop
MaxBump == 6            \* half-pixels added to or cut from a rectangle's area
MaxStickers == 9        \* sorted_contours[:9]
RTol == 30              \* np.allclose(.., .., 30, ..): rtol
ATol == 30              \* np.allclose(.., .., .., 30): atol

----------------------------------------------------------------------------
(* Arithmetic and sequences *)

Abs(x) == IF x < 0 THEN -x ELSE x
Min(a, b) == IF a <= b THEN a ELSE b
Max(a, b) == IF a >= b THEN a ELSE b
Last(s) == s[Len(s)]

\* s[:n]
Take(s, n) == SubSeq(s, 1, Min(n, Len(s)))

----------------------------------------------------------------------------
(* identify_stickers, lines 153-171: the crop geometry *)

\* The bug of taking the eighth of the larger side as the border.
PlanLargerEighth(h, w) ==
    IF w >= h
    THEN [border_top |-> w \div 8,
          border_side |-> (w \div 2) - 3 * (w \div 8),
          true_center_width |-> 4 * (w \div 8),
          center_width |-> 6 * (w \div 8)]
    ELSE [border_side |-> h \div 8,
          border_top |-> (h \div 2) - 3 * (h \div 8),
          true_center_width |-> 4 * (h \div 8),
          center_width |-> 6 * (h \div 8)]

\* The bug of not swapping the roles of the borders for a portrait image.
PlanNoSwap(h, w) ==
    LET larger_side == Max(h, w)
        smaller_side == Min(h, w)
    IN  [border_top |-> smaller_side \div 8,
         border_side |-> (larger_side \div 2) - 3 * (smaller_side \div 8),
         true_center_width |-> 4 * (smaller_side \div 8),
         center_width |-> 6 * (smaller_side \div 8)]

PlanLandscape(h, w) ==
    LET larger_side == w
        smaller_side == h
        bt == smaller_side \div 8
    IN  [border_top |-> bt,
         border_side |-> (larger_side \div 2) - 3 * bt,
         true_center_width |-> 4 * bt,
         center_width |-> 6 * bt]

PlanPortrait(h, w) ==
    LET larger_side == h
        smaller_side == w
        bs == smaller_side \div 8
    IN  [border_side |-> bs,
         border_top |-> (larger_side \div 2) - 3 * bs,
         true_center_width |-> 4 * bs,
         center_width |-> 6 * bs]

CropPlan(h, w) == IF w >= h THEN PlanLandscape(h, w) ELSE PlanPortrait(h, w)

\* image[a:b] on an axis of length n, for 0 <= a <= b: numpy clips to the axis.
SliceLen(n, a, b) == Min(n, b) - Min(n, a)

\* lines 174-175: the shape of image_cropped
CropShape(h, w, p) ==
    << SliceLen(h, p.border_top, p.border_top + p.center_width),
       SliceLen(w, p.border_side, p.border_side + p.center_width) >>

----------------------------------------------------------------------------
(* cv2.contourArea and is_rubik_square, lines 116-132 *)

\* Sum over the edges (s[i-1], s[i]), i = 2..n, of x0*y1 - x1*y0.
RECURSIVE CrossSum(_, _)
CrossSum(s, i) ==
    IF i > Len(s) THEN 0
    ELSE s[i-1][1] * s[i][2] - s[i][1] * s[i-1][2] + CrossSum(s, i + 1)

\* Twice cv2.contourArea(contour): the absolute value of the shoelace sum over
\* the closed polygon (the edge from the last point back to the first included).
\* contourArea is a multiple of 0.5, so its double is an integer.
ContourArea2(contour) ==
    Abs(Last(contour)[1] * contour[1][2] - contour[1][1] * Last(contour)[2]
        + CrossSum(contour, 2))

\* The bug of a strict comparison at the lower end of the band.
AreaInBandStrictLow(contour, cw) ==
    /\ 81 * ContourArea2(contour) > 2 * (3 * cw - cw) * (3 * cw - cw)
    /\ 81 * ContourArea2(contour) <= 2 * (3 * cw + cw) * (3 * cw + cw)

\* line 128: area >= (cw/3 - cw/9)**2 and area <= (cw/3 + cw/9)**2, in exact
\* arithmetic.  With area = A2/2 and cw/3 -+ cw/9 = (3cw -+ cw)/9 both sides are
\* multiplied by 162.  The floating-point evaluation agrees with the exact one:
\* when 9 divides cw every term is an exact integer, and otherwise the bound is
\* at least 1/162 away from every multiple of 0.5.
AreaInBand(contour, cw) ==
    /\ 81 * ContourArea2(contour) >= 2 * (3 * cw - cw) * (3 * cw - cw)
    /\ 81 * ContourArea2(contour) <= 2 * (3 * cw + cw) * (3 * cw + cw)

\* np.allclose(a, b, rtol, atol): all(|a - b| <= atol + rtol * |b|)
allclose(a, b, rtol, atol) ==
    \A i \in 1..2 : Abs(a[i] - b[i]) <= atol + rtol * Abs(b[i])

\* line 130: np.allclose(contour[0], contour[-1], 30, 30)
Closed(contour) == allclose(contour[1], Last(contour), RTol, ATol)

is_rubik_square(contour, cw) ==
    IF AreaInBand(contour, cw) THEN Closed(contour) ELSE FALSE

----------------------------------------------------------------------------
(* identify_stickers, lines 181-191: filter, sort, keep nine *)

\* lines 182-186
RECURSIVE FilterFrom(_, _, _)
FilterFrom(cs, i, cw) ==
    IF i > Len(cs) THEN << >>
    ELSE (IF is_rubik_square(cs[i], cw) THEN << cs[i] >> ELSE << >>)
         \o FilterFrom(cs, i + 1, cw)

\* The number of leading elements of s whose area is at least (strictly above) a.
RECURSIVE LeadGeq(_, _)
LeadGeq(s, a) ==
    IF s = << >> \/ ContourArea2(Head(s)) < a THEN 0 ELSE 1 + LeadGeq(Tail(s), a)

RECURSIVE LeadGt(_, _)
LeadGt(s, a) ==
    IF s = << >> \/ ContourArea2(Head(s)) <= a THEN 0 ELSE 1 + LeadGt(Tail(s), a)

InsertAt(s, n, c) == SubSeq(s, 1, n) \o << c >> \o SubSeq(s, n + 1, Len(s))

\* The bug of sorting ascending and reversing the list: ties come out reversed.
RECURSIVE SortedReversedTies(_)
SortedReversedTies(cs) ==
    IF cs = << >> THEN << >>
    ELSE LET front == SortedReversedTies(SubSeq(cs, 1, Len(cs) - 1))
             c == Last(cs)
         IN  InsertAt(front, LeadGt(front, ContourArea2(c)), c)

\* line 188: sorted(closed_contours, key=cv2.contourArea, reverse=True).  Python's
\* sort is stable, also with reverse=True: an element goes after every element
\* discovered before it whose area is at least its own.
RECURSIVE SortedByArea(_)
SortedByArea(cs) ==
    IF cs = << >> THEN << >>
    ELSE LET front == SortedByArea(SubSeq(cs, 1, Len(cs) - 1))
             c == Last(cs)
         IN  InsertAt(front, LeadGeq(front, ContourArea2(c)), c)

----------------------------------------------------------------------------
(* cv2.pointPolygonTest(contour, point, False) and correct_labels, lines 214-228 *)

\* One edge (v0, v) of the polygon against the point ip, as in the integer branch
\* of cv::pointPolygonTest: "on" where it returns 0, "count" where it increments
\* the crossing counter, "skip" otherwise.
EdgeTest(v0, v, ip) ==
    IF \/ (v0[2] <= ip[2] /\ v[2] <= ip[2])
       \/ (v0[2] > ip[2] /\ v[2] > ip[2])
       \/ (v0[1] < ip[1] /\ v[1] < ip[1])
    THEN IF /\ ip[2] = v[2]
            /\ \/ ip[1] = v[1]
               \/ /\ ip[2] = v0[2]
                  /\ \/ (v0[1] <= ip[1] /\ ip[1] <= v[1])
                     \/ (v[1] <= ip[1] /\ ip[1] <= v0[1])
         THEN "on" ELSE "skip"
    ELSE LET d == (ip[2] - v0[2]) * (v[1] - v0[1]) - (ip[1] - v0[1]) * (v[2] - v0[2])
             dist == IF v[2] < v0[2] THEN -d ELSE d
         IN  IF d = 0 THEN "on" ELSE IF dist > 0 THEN "count" ELSE "skip"

\* The edge ending at contour[i]; the first edge starts at the last point.
EdgeAt(contour, i, ip) ==
    EdgeTest(IF i = 1 THEN Last(contour) ELSE contour[i-1], contour[i], ip)

\* +1 inside, 0 on the boundary, -1 outside.  The loop returns 0 at the first
\* edge the point lies on, and the parity of the counter if there is none.
pointPolygonTest(contour, ip) ==
    IF \E i \in 1..Len(contour) : EdgeAt(contour, i, ip) = "on" THEN 0
    ELSE IF Cardinality({i \in 1..Len(contour) : EdgeAt(contour, i, ip) = "count"}) % 2 = 0
         THEN -1 ELSE 1

\* The bug of counting a point on the boundary as inside.
InsideOrOn(contour, point) == pointPolygonTest(contour, point) >= 0

\* line 227
Inside(contour, point) == pointPolygonTest(contour, point) > 0

\* lines 218-222: point_tests[ptindex], ptindex = 3 * y_coord_ind + x_coord_ind
point_tests(standard_length, ptindex) ==
    << (standard_length \div 4) * ((ptindex % 3) + 1),
       (standard_length \div 4) * ((ptindex \div 3) + 1) >>

\* The pair of a point and a contour, if the point is inside the contour.
PairIfInside(standard_length, stickers, ptindex, cntindex) ==
    IF Inside(stickers[cntindex + 1], point_tests(standard_length, ptindex))
    THEN << <<ptindex, cntindex>> >> ELSE << >>

\* The bug of looping over the points outside and the contours inside.
RECURSIVE ContoursOfPoint(_, _, _, _)
ContoursOfPoint(standard_length, stickers, ptindex, cntindex) ==
    IF cntindex >= Len(stickers) THEN << >>
    ELSE PairIfInside(standard_length, stickers, ptindex, cntindex)
         \o ContoursOfPoint(standard_length, stickers, ptindex, cntindex + 1)

RECURSIVE LabelsFromPoint(_, _, _)
LabelsFromPoint(standard_length, stickers, ptindex) ==
    IF ptindex >= 9 THEN << >>
    ELSE ContoursOfPoint(standard_length, stickers, ptindex, 0)
         \o LabelsFromPoint(standard_length, stickers, ptindex + 1)

LabelsPointOuter(standard_length, stickers) ==
    LabelsFromPoint(standard_length, stickers, 0)

\* line 226: the inner loop, over the nine points, from ptindex on
RECURSIVE PointsOfContour(_, _, _, _)
PointsOfContour(standard_length, stickers, cntindex, ptindex) ==
    IF ptindex >= 9 THEN << >>
    ELSE PairIfInside(standard_length, stickers, ptindex, cntindex)
         \o PointsOfContour(standard_length, stickers, cntindex, ptindex + 1)

\* line 225: the outer loop, over the contours, from cntindex on
RECURSIVE LabelsFromContour(_, _, _)
LabelsFromContour(standard_length, stickers, cntindex) ==
    IF cntindex >= Len(stickers) THEN << >>
    ELSE PointsOfContour(standard_length, stickers, cntindex, 0)
         \o LabelsFromContour(standard_length, stickers, cntindex + 1)

\* lines 224-228: for each contour, for each point
correct_labels(standard_length, stickers) ==
    LabelsFromContour(standard_length, stickers, 0)

----------------------------------------------------------------------------
(* The inputs: images and the contours found in them *)

\* Polygons as cv2.findContours hands them over: lists of points.
Rect(x, y, w, h) == << <<x, y>>, <<x + w, y>>, <<x + w, y + h>>, <<x, y + h>> >>
Tri(x, y, w, h) == << <<x, y>>, <<x + w, y>>, <<x, y + h>> >>

Shapes ==
    { [kind |-> "rect", x |-> 2, y |-> 2, w |-> 2, h |-> 2],
      [kind |-> "rect", x |-> 5, y |-> 5, w |-> 2, h |-> 2],
      [kind |-> "rect", x |-> 2, y |-> 5, w |-> 3, h |-> 2],
      [kind |-> "rect", x |-> 2, y |-> 2, w |-> 5, h |-> 2],
      [kind |-> "rect", x |-> 5, y |-> 2, w |-> 5, h |-> 2],
      [kind |-> "rect", x |-> 2, y |-> 2, w |-> 4, h |-> 2],
      [kind |-> "rect", x |-> 3, y |-> 3, w |-> 2, h |-> 2],
      [kind |-> "rect", x |-> 2, y |-> 2, w |-> 1, h |-> 1],
      [kind |-> "rect", x |-> 0, y |-> 0, w |-> 6, h |-> 6],
      [kind |-> "tri", x |-> 2, y |-> 2, w |-> 4, h |-> 4],
      [kind |-> "tri", x |-> 1, y |-> 1, w |-> 4, h |-> 4] }

ShapePoints(s) ==
    IF s.kind = "rect" THEN Rect(s.x, s.y, s.w, s.h) ELSE Tri(s.x, s.y, s.w, s.h)

ShapeContours == { ShapePoints(s) : s \in Shapes }

\* Two contours of equal area, two of different areas, one accepted and one not.
LongUniverses ==
    { {Rect(2, 2, 2, 2), Rect(5, 5, 2, 2)},
      {Rect(2, 2, 2, 2), Rect(2, 2, 5, 2)},
      {Rect(2, 5, 3, 2), Rect(2, 2, 1, 1)} }

\* Three areas, the largest one shared by two contours.
TieUniverse ==
    { Rect(2, 5, 3, 2), Rect(2, 2, 5, 2), Rect(5, 2, 5, 2), Rect(2, 2, 2, 2) }

SeqsUpTo(S, n) == UNION { [1..k -> S] : k \in 0..n }

ShortScenes == SeqsUpTo(ShapeContours, MaxShort)

LongScenes ==
    SeqsUpTo(TieUniverse, MaxTie)
    \cup UNION { SeqsUpTo(U, MaxLong) : U \in LongUniverses }

\* Image sizes <<height, width>>
PlanSizes ==
    ((1..MaxDim) \X (1..MaxDim))
    \cup { <<600, 800>>, <<800, 600>>, <<72, 79>>, <<480, 640>>, <<1080, 1920>> }

SceneSizes == { <<16, 16>>, <<24, 24>> }

Images ==
    { [height |-> d[1], width |-> d[2], found |-> << >>] : d \in PlanSizes }
    \cup { [height |-> d[1], width |-> d[2], found |-> f] :
               d \in SceneSizes, f \in ShortScenes }
    \cup { [height |-> 16, width |-> 16, found |-> f] : f \in LongScenes }

----------------------------------------------------------------------------
(* The pipeline: identify_stickers followed by correct_labels *)

NoLoop ==
    /\ lpc = "off" /\ result = FALSE /\ frames = 0
    /\ captures = 0 /\ invocations = 0

Fresh ==
    /\ pc = "start"
    /\ border_top = 0 /\ border_side = 0
    /\ true_center_width = 0 /\ center_width = 0
    /\ image_cropped = <<0, 0>>
    /\ contours = << >> /\ closed_contours = << >>
    /\ sticker_contours = << >> /\ label_key = << >>
    /\ error = "none" /\ accepted = FALSE

Init ==
    /\ \E im \in Images :
          /\ imgheight = im.height
          /\ imgwidth = im.width
          /\ image_contours = im.found
    /\ Fresh
    /\ NoLoop

\* lines 153-171
Plan ==
    /\ pc = "start"
    /\ LET p == CropPlan(imgheight, imgwidth)
       IN  /\ border_top' = p.border_top
           /\ border_side' = p.border_side
           /\ true_center_width' = p.true_center_width
           /\ center_width' = p.center_width
    /\ pc' = "planned"
    /\ UNCHANGED <<imgheight, imgwidth, image_contours, image_cropped, contours,
                   closed_contours, sticker_contours, label_key, error, accepted,
                   loopvars>>

PlanOf ==
    [border_top |-> border_top, border_side |-> border_side,
     true_center_width |-> true_center_width, center_width |-> center_width]

\* lines 174-175
Crop ==
    /\ pc = "planned"
    /\ image_cropped' = CropShape(imgheight, imgwidth, PlanOf)
    /\ pc' = "cropped"
    /\ UNCHANGED <<imgheight, imgwidth, image_contours, planvars, contours,
                   closed_contours, sticker_contours, label_key, error, accepted,
                   loopvars>>

\* line 178 on an empty crop: cv2.cvtColor asserts that its input is not empty
\* and raises cv2.error.
DetectEdgesRaises ==
    /\ pc = "cropped"
    /\ (image_cropped[1] = 0 \/ image_cropped[2] = 0)
    /\ error' = "cv2.error"
    /\ pc' = "raised"
    /\ UNCHANGED <<imgheight, imgwidth, image_contours, planvars, image_cropped,
                   contours, closed_contours, sticker_contours, label_key,
                   accepted, loopvars>>

\* lines 178-179
FindContours ==
    /\ pc = "cropped"
    /\ image_cropped[1] > 0 /\ image_cropped[2] > 0
    /\ contours' = image_contours
    /\ pc' = "extracted"
    /\ UNCHANGED <<imgheight, imgwidth, image_contours, planvars, image_cropped,
                   closed_contours, sticker_contours, label_key, error, accepted,
                   loopvars>>

\* lines 182-186
Filter ==
    /\ pc = "extracted"
    /\ closed_contours' = FilterFrom(contours, 1, true_center_width)
    /\ pc' = "filtered"
    /\ UNCHANGED <<imgheight, imgwidth, image_contours, planvars, image_cropped,
                   contours, sticker_contours, label_key, error, accepted,
                   loopvars>>

\* lines 188-193
SortAndKeep ==
    /\ pc = "filtered"
    /\ sticker_contours' = Take(SortedByArea(closed_contours), MaxStickers)
    /\ pc' = "returned"
    /\ UNCHANGED <<imgheight, imgwidth, image_contours, planvars, image_cropped,
                   contours, closed_contours, label_key, error, accepted,
                   loopvars>>

\* lines 215-228; standard_length = len(image_cropped)
Label ==
    /\ pc = "returned"
    /\ label_key' = correct_labels(image_cropped[1], sticker_contours)
    /\ pc' = "labelled"
    /\ UNCHANGED <<imgheight, imgwidth, image_contours, planvars, image_cropped,
                   contours, closed_contours, sticker_contours, error, accepted,
                   loopvars>>

\* lines 230-241, display = True: cv2.moments gives m00 = contourArea, and the
\* centroid divides by it.
DisplayError(stickers, key) ==
    IF \E i \in 1..Len(key) : ContourArea2(stickers[key[i][2] + 1]) = 0
    THEN "ZeroDivisionError" ELSE "none"

Display ==
    /\ pc = "labelled"
    /\ error' = DisplayError(sticker_contours, label_key)
    /\ pc' = "done"
    /\ UNCHANGED <<imgheight, imgwidth, image_contours, planvars, image_cropped,
                   contours, closed_contours, sticker_contours, label_key,
                   accepted, loopvars>>

Next ==
    \/ Plan
    \/ Crop
    \/ DetectEdgesRaises
    \/ FindContours
    \/ Filter
    \/ SortAndKeep
    \/ Label
    \/ Display

Spec == Init /\ [][Next]_vars

----------------------------------------------------------------------------
(* Properties of the pipeline *)

Planned == pc # "start"
Cropped == pc \notin {"start", "planned"}
Returned == pc = "returned"      \* identify_stickers has returned
Labelled == pc = "labelled"      \* correct_labels has built label_key

C4_FailsFastOnSmallImage ==
    Min(imgheight, imgwidth) < 8 =>
        /\ pc # "cropped"
        /\ pc = "raised" => error = "invalid input"

\* C5: the list returned by identify_stickers is the first nine of the passing
\* contours in descending order of area, contours of equal area in the order of
\* their discovery; its length is min(9, number of passing contours).  The place
\* of a passing contour is after every larger one and after every one of the
\* same area discovered before it.
C5_StableNineLargest ==
    Returned =>
        LET n == Len(contours)
            area == [i \in 1..n |-> ContourArea2(contours[i])]
            passing == { i \in 1..n : is_rubik_square(contours[i], true_center_width) }
            rank == [i \in passing |->
                        1 + Cardinality({ j \in passing :
                                \/ area[j] > area[i]
                                \/ (area[j] = area[i] /\ j < i) })]
        IN  /\ Len(sticker_contours) = Min(9, Cardinality(passing))
            /\ \A i \in passing :
                  rank[i] <= 9 => sticker_contours[rank[i]] = contours[i]

C5_Witness ==
    /\ pc = "returned"
    /\ Len(closed_contours) > 9
    /\ Len(sticker_contours) = 9
    /\ \E i \in 1..9 : sticker_contours[i] # sticker_contours[1]
    /\ \A i \in 1..9 : ContourArea2(sticker_contours[i]) = ContourArea2(sticker_contours[1])

\* C3 (as amended): the pairs of label_key are ordered by candidate index first
\* and, for equal candidate index, by grid index: the candidate index is the
\* outer loop and the grid index the inner one.
C3_OrderedByCandidateThenGrid ==
    Labelled =>
        \A i, j \in 1..Len(label_key) :
            i < j =>
                \/ label_key[i][2] < label_key[j][2]
                \/ (label_key[i][2] = label_key[j][2] /\ label_key[i][1] < label_key[j][1])

\* C3 (as stated): the pairs are ordered by grid index first and, for equal
\* grid index, by candidate index.
C3_OrderedByGridThenCandidate ==
    Labelled =>
        \A i, j \in 1..Len(label_key) :
            i < j =>
                \/ label_key[i][1] < label_key[j][1]
                \/ (label_key[i][1] = label_key[j][1] /\ label_key[i][2] < label_key[j][2])

C3_Witness ==
    /\ pc = "labelled"
    /\ \E i, j \in 1..Len(label_key) :
          i < j /\ label_key[i][1] > label_key[j][1] /\ label_key[i][2] < label_key[j][2]

\* The shape a contour was drawn from, and whether a point is strictly inside it.
ShapeOf(contour) == CHOOSE s \in Shapes : ShapePoints(s) = contour

StrictlyInside(s, p) ==
    IF s.kind = "rect"
    THEN s.x < p[1] /\ p[1] < s.x + s.w /\ s.y < p[2] /\ p[2] < s.y + s.h
    ELSE /\ p[1] > s.x /\ p[2] > s.y
         /\ (p[1] - s.x) * s.h + (p[2] - s.y) * s.w < s.w * s.h

OnBoundary(s, p) ==
    /\ ~StrictlyInside(s, p)
    /\ IF s.kind = "rect"
       THEN s.x <= p[1] /\ p[1] <= s.x + s.w /\ s.y <= p[2] /\ p[2] <= s.y + s.h
       ELSE /\ p[1] >= s.x /\ p[2] >= s.y
            /\ (p[1] - s.x) * s.h + (p[2] - s.y) * s.w <= s.w * s.h

\* point(r, c) = (side // 4 * (c + 1), side // 4 * (r + 1))
GridPoint(side, g) ==
    LET r == g \div 3
        c == g % 3
    IN  << (side \div 4) * (c + 1), (side \div 4) * (r + 1) >>

TruePairs ==
    { t \in (0..8) \X (0..(Len(sticker_contours) - 1)) :
        StrictlyInside(ShapeOf(sticker_contours[t[2] + 1]),
                       GridPoint(center_width, t[1])) }

\* C6: the pairs of label_key are exactly the (g, k) with grid point g strictly
\* inside candidate k: a grid point on a boundary gives no pair, a grid point
\* inside no candidate is absent, a grid point inside several candidates gives
\* one pair for each of them, and no pair is listed twice.
C6_PairsAreStrictlyInside ==
    Labelled =>
        /\ { label_key[i] : i \in 1..Len(label_key) } = TruePairs
        /\ Len(label_key) = Cardinality(TruePairs)

C6_Witness ==
    /\ pc = "labelled"
    /\ \E k \in 1..Len(sticker_contours) : \E g \in 0..8 :
          OnBoundary(ShapeOf(sticker_contours[k]), GridPoint(center_width, g))
    /\ \E i, j \in 1..Len(label_key) :
          i # j /\ label_key[i][1] = label_key[j][1]
    /\ \E g \in 0..8 : \A i \in 1..Len(label_key) : label_key[i][1] # g

----------------------------------------------------------------------------
(* is_rubik_square called on one contour with the scale of an image *)

\* A w x h rectangle with a triangle of area e/2 added on top of it (e >= 0) or
\* cut from its corner (e < 0), closed by repeating its first point: twice its
\* area is 2*w*h + e.
AreaPoly(w, h, e) ==
    IF e >= 0
    THEN << <<0, 0>>, <<w, 0>>, <<w, h>>, <<e, h>>, <<0, h + 1>>, <<0, 0>> >>
    ELSE << <<0, 0>>, <<w, 0>>, <<w, h>>, <<-e, h>>, <<0, h - 1>>, <<0, 0>> >>

AreaPolys ==
    { AreaPoly(d[1], d[2], e) :
        d \in { <<1, 1>>, <<3, 1>>, <<2, 2>>, <<3, 3>>, <<8, 8>>, <<16, 16>>,
                <<100, 100>>, <<44, 101>>, <<176, 101>> },
        e \in (-MaxBump)..MaxBump }

\* Contours that enclose no area: a point, a segment, a bow tie.
FlatContours ==
    { << <<0, 0>> >>, << <<5, 5>> >>, << <<0, 0>>, <<3, 0>> >>,
      << <<0, 0>>, <<4, 4>>, <<4, 0>>, <<0, 4>> >> }

\* A contour that ends at <<lx, ly>> and starts <<dx, dy>> away from there.
OpenQuad(lx, ly, dx, dy) ==
    << <<lx + dx, ly + dy>>, <<lx + dx + 100, ly + dy>>,
       <<lx + dx + 100, ly + dy + 100>>, <<lx, ly>> >>

Gaps == { -31, 0, 29, 30, 31, 61 }

OpenQuads ==
    { OpenQuad(l[1], l[2], d[1], d[2]) :
        l \in { t \in {0, 1, 200} \X {0, 1, 200} : TRUE },
        d \in { t \in Gaps \X Gaps : TRUE } }

FilterInputs ==
    { c \in AreaPolys \cup FlatContours \cup OpenQuads :
        \A i \in 1..Len(c) : c[i][1] >= 0 /\ c[i][2] >= 0 }

FilterSizes ==
    { <<7, 7>>, <<5, 100>>, <<8, 8>>, <<16, 16>>, <<72, 79>>, <<600, 800>>, <<800, 600>> }

InitFilter ==
    /\ \E d \in FilterSizes : imgheight = d[1] /\ imgwidth = d[2]
    /\ \E c \in FilterInputs : image_contours = << c >>
    /\ Fresh
    /\ NoLoop

\* line 185, for one contour
CallFilter ==
    /\ pc = "planned"
    /\ accepted' = is_rubik_square(image_contours[1], true_center_width)
    /\ pc' = "called"
    /\ UNCHANGED <<imgheight, imgwidth, image_contours, planvars, image_cropped,
                   contours, closed_contours, sticker_contours, label_key, error,
                   loopvars>>

NextFilter ==
    \/ Plan
    \/ CallFilter

SpecFilter == InitFilter /\ [][NextFilter]_vars

TheContour == image_contours[1]
Gap(i) == Abs(TheContour[1][i] - Last(TheContour)[i])

\* C8: the area test is inclusive at both ends: with lo = (s/3 - s/9)^2 =
\* 4*s^2/81 and hi = (s/3 + s/9)^2 = 16*s^2/81, a contour passes the area test
\* iff lo <= area <= hi; for s = 300 an area of 10000 passes, an area of at most
\* lo - 1 fails and an area of at least hi + 1 fails.  The area test decides the
\* result for a contour whose first and last points coincide.
C8_AreaBandInclusive ==
    pc = "called" =>
        LET s == true_center_width
            a2 == ContourArea2(TheContour)
            inBand == 8 * s * s <= 81 * a2 /\ 81 * a2 <= 32 * s * s
        IN  /\ accepted => inBand
            /\ TheContour[1] = Last(TheContour) =>
                  /\ accepted <=> inBand
                  /\ (s = 300 /\ a2 = 20000) => accepted
                  /\ (s = 300 /\ 81 * (a2 + 2) <= 8 * s * s) => ~accepted
                  /\ (s = 300 /\ 81 * (a2 - 2) >= 32 * s * s) => ~accepted

C8_Witness ==
    /\ pc = "called"
    /\ true_center_width = 36
    /\ TheContour[1] = Last(TheContour)
    /\ ContourArea2(TheContour) = 128
    /\ accepted

\* C2: the closure check accepts a contour iff its first and last points differ
\* by at most 30 pixels on each axis, wherever the points lie: with the area in
\* the band, is_rubik_square is true exactly for those contours.
C2_ClosureAbsolute30 ==
    (pc = "called" /\ AreaInBand(TheContour, true_center_width)) =>
        (accepted <=> (Gap(1) <= 30 /\ Gap(2) <= 30))

\* C7: no contour of zero area is accepted by is_rubik_square, for every inner
\* scale identify_stickers computes from the size of an image, so that no
\* accepted contour makes the centroid division divide by zero.
C7_ZeroAreaRejected ==
    (pc = "called" /\ accepted) =>
        /\ ContourArea2(TheContour) # 0
        /\ DisplayError(<< TheContour >>, << <<0, 0>> >>) = "none"

----------------------------------------------------------------------------
(* The main program, lines 244-277: the capture loop *)

\* Frames the camera delivers.
LoopFrames ==
    { [height |-> 16, width |-> 16, found |-> << Rect(2, 2, 2, 2) >>],
      [height |-> 16, width |-> 16, found |-> << Rect(2, 2, 2, 2), Rect(2, 2, 5, 2) >>],
      [height |-> 24, width |-> 16, found |-> << Rect(2, 2, 5, 2), Rect(2, 5, 3, 2) >>] }

\* cv2.waitKey returns the key pressed while it waits, or -1 ("none").
Keys == { "none", "q", "p", "x" }

\* lines 246-247: the first read; no image is a 0 x 0 image here
InitLoop ==
    /\ Fresh
    /\ lpc = "while"
    /\ frames = 0 /\ captures = 0 /\ invocations = 0
    /\ result \in BOOLEAN
    /\ IF result
       THEN \E im \in LoopFrames :
               imgheight = im.height /\ imgwidth = im.width /\ image_contours = im.found
       ELSE imgheight = 0 /\ imgwidth = 0 /\ image_contours = << >>

pipevars == <<pc, planvars, image_cropped, contours, closed_contours,
              sticker_contours, label_key, error, accepted>>

\* lines 252-260, a frame read: guidelines draws on a copy, imshow shows it
ReadFrame ==
    /\ lpc = "while" /\ result
    /\ frames < MaxFrames
    /\ frames' = frames + 1
    /\ result' = TRUE
    /\ \E im \in LoopFrames :
          imgheight' = im.height /\ imgwidth' = im.width /\ image_contours' = im.found
    /\ lpc' = "wait_q"
    /\ UNCHANGED <<pipevars, captures, invocations>>

\* lines 254-257, the read fails: image is None and np.shape(None) = () does not
\* unpack into three values in guidelines
ReadFails ==
    /\ lpc = "while" /\ result
    /\ frames < MaxFrames
    /\ frames' = frames + 1
    /\ result' = FALSE
    /\ imgheight' = 0 /\ imgwidth' = 0 /\ image_contours' = << >>
    /\ error' = "ValueError"
    /\ lpc' = "raised"
    /\ UNCHANGED <<pc, planvars, image_cropped, contours, closed_contours,
                   sticker_contours, label_key, accepted, captures, invocations>>

\* line 252 with result false, lines 273-277
LoopEnds ==
    /\ lpc = "while" /\ ~result
    /\ lpc' = "released"
    /\ UNCHANGED <<imgheight, imgwidth, image_contours, pipevars, result, frames,
                   captures, invocations>>

\* lines 263-264: the key is compared with 'q' only
WaitKeyQuit ==
    /\ lpc = "wait_q"
    /\ \E key \in Keys :
          /\ captures' = IF key = "p" THEN captures + 1 ELSE captures
          /\ lpc' = IF key = "q" THEN "released" ELSE "wait_p"
    /\ UNCHANGED <<imgheight, imgwidth, image_contours, pipevars, result, frames,
                   invocations>>

\* lines 267-271: the key is compared with 'p' only; on 'p' identify_stickers
\* and correct_labels(.., .., True) run to the end
WaitKeyCapture ==
    /\ lpc = "wait_p"
    /\ \E key \in Keys :
          /\ captures' = IF key = "p" THEN captures + 1 ELSE captures
          /\ IF key = "p"
             THEN LET p == CropPlan(imgheight, imgwidth)
                      shape == CropShape(imgheight, imgwidth, p)
                      closed == FilterFrom(image_contours, 1, p.true_center_width)
                      stickers == Take(SortedByArea(closed), MaxStickers)
                      key_ == correct_labels(shape[1], stickers)
                  IN  /\ border_top' = p.border_top
                      /\ border_side' = p.border_side
                      /\ true_center_width' = p.true_center_width
                      /\ center_width' = p.center_width
                      /\ image_cropped' = shape
                      /\ contours' = image_contours
                      /\ closed_contours' = closed
                      /\ sticker_contours' = stickers
                      /\ label_key' = key_
                      /\ error' = DisplayError(stickers, key_)
                      /\ pc' = "done"
                      /\ invocations' = invocations + 1
             ELSE UNCHANGED <<pc, planvars, image_cropped, contours, closed_contours,
                              sticker_contours, label_key, error, invocations>>
    /\ lpc' = "while"
    /\ UNCHANGED <<imgheight, imgwidth, image_contours, accepted, result, frames>>

NextLoop ==
    \/ ReadFrame
    \/ ReadFails
    \/ LoopEnds
    \/ WaitKeyQuit
    \/ WaitKeyCapture

SpecLoop == InitLoop /\ [][NextLoop]_vars

\* C10: every capture keypress ('p') made while the loop runs triggers exactly
\* one run of the pipeline, whichever of the two key waits takes the key: the
\* pipeline has run as often as 'p' has been pressed.
C10_EveryCaptureRunsPipeline == invocations = captures

============================================================================
